---- MODULE Spec2Model ----
(***************************************************************************)
(* Model of the diff pipeline of committer (src/src/git.rs): the pattern   *)
(* matcher should_exclude_from_diff, the filter filter_excluded_diffs, the *)
(* truncation truncate_diff and the status annotator of get_staged_files / *)
(* get_pr_changed_files.                                                   *)
(*                                                                         *)
(* A string is a sequence of runs [c |-> character, n |-> repetitions].    *)
(* Every character of a literal is a run of length 1; only the filler      *)
(* characters (the content of hunk lines) are stored as one run of n       *)
(* characters, so that a diff of 300,000 characters stays a short          *)
(* sequence.  The filler is "+" (one byte in UTF-8) or "U+00E9" (two       *)
(* bytes).  str::len is Length, the number of bytes.                       *)
(***************************************************************************)
EXTENDS Integers, Sequences, FiniteSets, TLC

VARIABLES
    files,      \* the change set git reports on: sequence of file changes
    diff,       \* stdout of `git diff`
    status,     \* stdout of `git diff --name-status`
    verbose,    \* the --verbose flag of the run
    prev,       \* argument of the last pipeline call
    cur,        \* the diff text as processed so far (result of the last call)
    op,         \* the last pipeline call: "none", "filter", "truncate", "retruncate",
                \* "get_git_diff"
    annotated,  \* result of the status annotator, once it ran
    annDone,    \* TRUE once the status annotator ran
    stderr,     \* diagnostics printed by the last call
    panicked,   \* TRUE once a call panicked instead of returning
    path,       \* a file name handed to should_exclude_from_diff
    excluded,   \* what should_exclude_from_diff(path) returned
    matched,    \* the rules of EXCLUDED_FROM_DIFF whose test path passed
    matchDone,  \* TRUE once should_exclude_from_diff(path) returned
    cmd,        \* the command of the run: "commit" (no subcommand) or "pr"
    cli,        \* the flags and settings of the run
    pc,         \* where main / handle_pr_command stands
    diffTask,   \* the diff retrieval of tokio::join!: "idle", "running", "ok", "empty", "err"
    filesTask,  \* the status retrieval of tokio::join!: "idle", "running", "ok", "err"
    branch_already_handled,  \* main.rs:1751
    show_branch_option,      \* main.rs:1819
    branch_created,          \* main.rs:1863
    current_message,         \* main.rs:1820, a message is the number of edits it went through
    prompt_message,          \* current_message of prompt_commit, ui.rs:128
    prompt_arg,              \* the message prompt_commit was last called with
    answer,     \* the last line the user typed at a prompt
    trace,      \* the external effects of the run so far, in order
    outcome,    \* "running", "ok" (Ok(())), "err:<what>" (Err) or "exit" (process::exit)
    baseEnv,    \* what gh and git answer during base-branch detection
    basePc,     \* where get_default_base_branch stands
    baseTried,  \* the names handed to branch_has_merge_base so far, in order
    baseResult  \* what get_default_base_branch returned

matchVars == <<path, excluded, matched, matchDone>>

pipeVars == <<files, diff, status, verbose, prev, cur, op, annotated, annDone, stderr, panicked>>

cliVars == <<cmd, cli, pc, diffTask, filesTask, branch_already_handled, show_branch_option,
             branch_created, current_message, prompt_message, prompt_arg, answer, trace,
             outcome>>

baseVars == <<baseEnv, basePc, baseTried, baseResult>>

vars == <<pipeVars, matchVars, cliVars, baseVars>>

\* No command is running.
IdleCli ==
    /\ cmd = "none"
    /\ cli = <<>>
    /\ pc = "idle"
    /\ diffTask = "idle"
    /\ filesTask = "idle"
    /\ branch_already_handled = FALSE
    /\ show_branch_option = FALSE
    /\ branch_created = FALSE
    /\ current_message = 0
    /\ prompt_message = 0
    /\ prompt_arg = 0
    /\ answer = ""
    /\ trace = <<>>
    /\ outcome = "running"

\* No base-branch detection is running.
IdleBase ==
    /\ baseEnv = <<>>
    /\ basePc = "idle"
    /\ baseTried = <<>>
    /\ baseResult = "none"

(***************************************************************************)
(* Bounds of the model.                                                    *)
(***************************************************************************)
MaxSegs == 2    \* files in a change set
MaxEdits == 2   \* edits of the commit message in one run
MaxRounds == 2  \* create-branch rounds the model follows in one run

(***************************************************************************)
(* Strings.                                                                *)
(***************************************************************************)
\* The literal whose characters are the elements of the tuple s.
Str(s) == [i \in DOMAIN s |-> [c |-> s[i], n |-> 1]]

\* n filler characters ch.
Fill(ch, n) == IF n = 0 THEN <<>> ELSE <<[c |-> ch, n |-> n]>>

\* Bytes of one character in UTF-8.
Width(ch) == IF ch = "U+00E9" THEN 2 ELSE 1

\* str::len: the length in bytes.
RECURSIVE Length(_)
Length(t) == IF t = <<>> THEN 0 ELSE t[1].n * Width(t[1].c) + Length(Tail(t))

\* str::is_char_boundary(k): byte offset k is the start of a character or the
\* end of t.
RECURSIVE is_char_boundary(_, _)
is_char_boundary(t, k) ==
    IF k = 0 THEN TRUE
    ELSE IF k < 0 \/ t = <<>> THEN FALSE
    ELSE LET b == t[1].n * Width(t[1].c)
         IN IF b <= k THEN is_char_boundary(Tail(t), k - b) ELSE k % Width(t[1].c) = 0

starts_with(t, p) == Len(t) >= Len(p) /\ SubSeq(t, 1, Len(p)) = p

ends_with(t, p) == Len(t) >= Len(p) /\ SubSeq(t, Len(t) - Len(p) + 1, Len(t)) = p

\* Index of the first occurrence of p in t, 0 when there is none.
Find(t, p) ==
    LET hits == {i \in 1..(Len(t) - Len(p) + 1) : SubSeq(t, i, i + Len(p) - 1) = p}
    IN IF hits = {} THEN 0 ELSE CHOOSE i \in hits : \A j \in hits : i <= j

contains(t, p) == Find(t, p) # 0

\* str::split(pattern): the pieces between the non-overlapping occurrences of
\* p, found left to right; always at least one piece.
RECURSIVE split(_, _)
split(t, p) ==
    LET i == Find(t, p)
    IN IF i = 0 THEN <<t>>
       ELSE <<SubSeq(t, 1, i - 1)>> \o split(SubSeq(t, i + Len(p), Len(t)), p)

\* [String].join(sep)
RECURSIVE join(_, _)
join(v, sep) ==
    IF v = <<>> THEN <<>>
    ELSE IF Len(v) = 1 THEN v[1]
    ELSE v[1] \o sep \o join(Tail(v), sep)

\* &s[..k]: the first k bytes, for k on a character boundary (a run is cut
\* where the slice ends).
RECURSIVE TakeChars(_, _)
TakeChars(t, k) ==
    IF k <= 0 \/ t = <<>> THEN <<>>
    ELSE LET b == t[1].n * Width(t[1].c)
         IN IF b <= k THEN <<t[1]>> \o TakeChars(Tail(t), k - b)
            ELSE <<[c |-> t[1].c, n |-> k \div Width(t[1].c)]>>

\* &s[k..]: all but the first k bytes, for k on a character boundary.
RECURSIVE DropChars(_, _)
DropChars(t, k) ==
    IF k <= 0 \/ t = <<>> THEN t
    ELSE LET b == t[1].n * Width(t[1].c)
         IN IF b <= k THEN DropChars(Tail(t), k - b)
            ELSE <<[c |-> t[1].c, n |-> t[1].n - k \div Width(t[1].c)]>> \o Tail(t)

\* v[i] and Vec::remove(i - 1) panic when the vector has no i-th element.
IndexPanics(v, i) == i \notin DOMAIN v

\* str::trim_end_matches(ch)
RECURSIVE trim_end_matches(_, _)
trim_end_matches(t, ch) ==
    IF t # <<>> /\ t[Len(t)] = ch THEN trim_end_matches(SubSeq(t, 1, Len(t) - 1), ch)
    ELSE t

\* str::lines(): split on "\n", a final empty line is not a line.
lines(t) ==
    LET parts == split(t, Str(<<"\n">>))
    IN IF parts[Len(parts)] = <<>> THEN SubSeq(parts, 1, Len(parts) - 1) ELSE parts

\* str::splitn(2, sep): at most two pieces, split at the first sep.
splitn2(t, sep) ==
    LET i == Find(t, sep)
    IN IF i = 0 THEN <<t>> ELSE <<SubSeq(t, 1, i - 1), SubSeq(t, i + Len(sep), Len(t))>>

\* Display of an unsigned integer in decimal ("{}" of a usize).
Digit(d) == Str(<<CASE d = 0 -> "0" [] d = 1 -> "1" [] d = 2 -> "2" [] d = 3 -> "3"
                    [] d = 4 -> "4" [] d = 5 -> "5" [] d = 6 -> "6" [] d = 7 -> "7"
                    [] d = 8 -> "8" [] OTHER -> "9">>)

RECURSIVE Decimal(_)
Decimal(k) == IF k < 10 THEN Digit(k) ELSE Decimal(k \div 10) \o Digit(k % 10)

None == [some |-> FALSE, v |-> <<>>]
Some(x) == [some |-> TRUE, v |-> x]

(***************************************************************************)
(* Pattern matcher.                                                        *)
(***************************************************************************)
EXCLUDED_FROM_DIFF == <<
    Str(<<"C", "a", "r", "g", "o", ".", "l", "o", "c", "k">>),
    Str(<<"p", "a", "c", "k", "a", "g", "e", "-", "l", "o", "c", "k", ".", "j", "s", "o", "n">>),
    Str(<<"y", "a", "r", "n", ".", "l", "o", "c", "k">>),
    Str(<<"p", "n", "p", "m", "-", "l", "o", "c", "k", ".", "y", "a", "m", "l">>),
    Str(<<"c", "o", "m", "p", "o", "s", "e", "r", ".", "l", "o", "c", "k">>),
    Str(<<"G", "e", "m", "f", "i", "l", "e", ".", "l", "o", "c", "k">>),
    Str(<<"p", "o", "e", "t", "r", "y", ".", "l", "o", "c", "k">>),
    Str(<<"b", "u", "n", ".", "l", "o", "c", "k", "b">>),
    Str(<<"u", "v", ".", "l", "o", "c", "k">>),
    Str(<<".", "m", "i", "n", ".", "j", "s">>),
    Str(<<".", "m", "i", "n", ".", "c", "s", "s">>),
    Str(<<".", "m", "a", "p">>),
    Str(<<"t", "a", "r", "g", "e", "t", "/">>),
    Str(<<"n", "o", "d", "e", "_", "m", "o", "d", "u", "l", "e", "s", "/">>),
    Str(<<"d", "i", "s", "t", "/">>),
    Str(<<"b", "u", "i", "l", "d", "/">>),
    Str(<<".", "n", "e", "x", "t", "/">>),
    Str(<<"_", "_", "p", "y", "c", "a", "c", "h", "e", "_", "_", "/">>) >>

MAX_DIFF_CHARS == 300000

Slash == Str(<<"/">>)

PatternMatchesExtensionFirst(filename, pattern) ==
    IF starts_with(pattern, Str(<<".">>))
    THEN ends_with(filename, pattern)
    ELSE IF ends_with(pattern, Slash)
    THEN LET dir_name == trim_end_matches(pattern, Slash[1])
         IN \/ contains(filename, Slash \o dir_name \o Slash)
            \/ starts_with(filename, dir_name \o Slash)
    ELSE ends_with(filename, pattern) \/ ends_with(filename, Slash \o pattern)

PatternMatchesUnanchored(filename, pattern) ==
    IF ends_with(pattern, Slash)
    THEN contains(filename, pattern)
    ELSE IF starts_with(pattern, Str(<<".">>))
    THEN ends_with(filename, pattern)
    ELSE ends_with(filename, pattern) \/ ends_with(filename, Slash \o pattern)

PatternMatchesBasename(filename, pattern) ==
    IF ends_with(pattern, Slash)
    THEN LET dir_name == trim_end_matches(pattern, Slash[1])
         IN \/ contains(filename, Slash \o dir_name \o Slash)
            \/ starts_with(filename, dir_name \o Slash)
    ELSE IF starts_with(pattern, Str(<<".">>))
    THEN ends_with(filename, pattern)
    ELSE filename = pattern \/ ends_with(filename, Slash \o pattern)

\* The closure of should_exclude_from_diff: does one pattern match filename.
PatternMatches(filename, pattern) ==
    IF ends_with(pattern, Slash)
    THEN LET dir_name == trim_end_matches(pattern, Slash[1])
         IN \/ contains(filename, Slash \o dir_name \o Slash)
            \/ starts_with(filename, dir_name \o Slash)
    ELSE IF starts_with(pattern, Str(<<".">>))
    THEN ends_with(filename, pattern)
    ELSE ends_with(filename, pattern) \/ ends_with(filename, Slash \o pattern)

should_exclude_if_all_match(filename) ==
    \A k \in DOMAIN EXCLUDED_FROM_DIFF : PatternMatches(filename, EXCLUDED_FROM_DIFF[k])

should_exclude_from_diff(filename) ==
    \E k \in DOMAIN EXCLUDED_FROM_DIFF : PatternMatches(filename, EXCLUDED_FROM_DIFF[k])

(***************************************************************************)
(* Filter.                                                                 *)
(***************************************************************************)
DiffGit == Str(<<"d", "i", "f", "f", " ", "-", "-", "g", "i", "t", " ">>)
Marker == Str(<<"\n">>) \o DiffGit
HeaderPrefix == DiffGit \o Str(<<"a", "/">>)
BSep == Str(<<" ", "b", "/">>)

extract_filename_from_diff_header(header) ==
    LET ls == lines(header)
    IN IF ls = <<>> THEN None
       ELSE IF ~starts_with(ls[1], HeaderPrefix) THEN None
       ELSE Some(split(SubSeq(ls[1], Len(HeaderPrefix) + 1, Len(ls[1])), BSep)[1])

\* The first chunk, lines 102-113: acc is [file_diffs, excluded_files].
FilterFirst(first) ==
    IF first = <<>> THEN [file_diffs |-> <<>>, excluded_files |-> <<>>]
    ELSE LET name == extract_filename_from_diff_header(DiffGit \o first)
         IN IF name.some
            THEN IF should_exclude_from_diff(name.v)
                 THEN [file_diffs |-> <<>>, excluded_files |-> <<name.v>>]
                 ELSE [file_diffs |-> <<first>>, excluded_files |-> <<>>]
            ELSE [file_diffs |-> <<first>>, excluded_files |-> <<>>]

FilterChunkFullHeader(acc, chunk) ==
    LET full_header == DiffGit \o chunk
        name == extract_filename_from_diff_header(full_header)
    IN IF name.some
       THEN IF should_exclude_from_diff(name.v)
            THEN [acc EXCEPT !.excluded_files = Append(@, name.v)]
            ELSE [acc EXCEPT !.file_diffs = Append(@, Marker \o full_header)]
       ELSE acc

\* One round of the loop over the later chunks, lines 115-124.
FilterChunk(acc, chunk) ==
    LET full_header == DiffGit \o chunk
        name == extract_filename_from_diff_header(full_header)
    IN IF name.some
       THEN IF should_exclude_from_diff(name.v)
            THEN [acc EXCEPT !.excluded_files = Append(@, name.v)]
            ELSE [acc EXCEPT !.file_diffs = Append(@, Marker \o chunk)]
       ELSE acc

RECURSIVE FilterLoop(_, _)
FilterLoop(acc, chunks) ==
    IF chunks = <<>> THEN acc
    ELSE FilterLoop(FilterChunk(acc, Head(chunks)), Tail(chunks))

\* file_diffs and excluded_files at line 125, for a non-empty diff.
FilterRun(d) ==
    LET chunks == split(d, Marker)
    IN FilterLoop(FilterFirst(Head(chunks)), Tail(chunks))

\* What filter_excluded_diffs prints to stderr, lines 126-131.
FilterDiagnostics(d, verb) ==
    IF d = <<>> THEN <<>>
    ELSE LET x == FilterRun(d).excluded_files
         IN IF verb /\ x # <<>>
            THEN <<[msg |-> "Excluded from diff", n |-> Len(x), name |-> <<>>]>>
                 \o [i \in DOMAIN x |-> [msg |-> "file", n |-> 0, name |-> x[i]]]
            ELSE <<>>

\* filter_excluded_diffs panics: at chunks.remove(0) of line 98.
FilterPanics(d) ==
    /\ d # <<>>
    /\ LET chunks == split(d, Marker)
       IN Len(chunks) # 0 /\ IndexPanics(chunks, 1)

filter_excluded_diffs_line_joined(d) ==
    IF d = <<>> THEN d
    ELSE LET chunks == split(d, Marker)
         IN IF Len(chunks) = 0 THEN d
            ELSE join(FilterRun(d).file_diffs, Str(<<"\n">>))

filter_excluded_diffs(d) ==
    IF d = <<>> THEN d
    ELSE LET chunks == split(d, Marker)
         IN IF Len(chunks) = 0 THEN d
            ELSE join(FilterRun(d).file_diffs, <<>>)

(***************************************************************************)
(* Truncation.                                                             *)
(***************************************************************************)
NoticeReserve == 200

FallbackTakenWithoutMarker(chunks) == Len(chunks) <= 1

\* The test of line 146.
FallbackTaken(chunks) == Len(chunks) = 0

\* Lines 148-150 and 154: a slice off a character boundary or out of range,
\* or a subtraction below zero, panics.
FallbackPanics(d) ==
    LET keep_each == MAX_DIFF_CHARS \div 2
    IN \/ ~is_char_boundary(d, keep_each)
       \/ Length(d) < keep_each
       \/ ~is_char_boundary(d, Length(d) - keep_each)
       \/ Length(d) < MAX_DIFF_CHARS

\* Lines 147-162: the middle cut.
FallbackTruncate(d) ==
    LET keep_each == MAX_DIFF_CHARS \div 2
        start == TakeChars(d, keep_each)
        end == DropChars(d, Length(d) - keep_each)
    IN start
       \o Str(<<"\n", "\n", "[", ".", ".", ".", " ">>)
       \o Decimal(Length(d) - MAX_DIFF_CHARS)
       \o Str(<<" ", "c", "h", "a", "r", "a", "c", "t", "e", "r", "s", " ", "t", "r", "u",
                "n", "c", "a", "t", "e", "d", " ", ".", ".", ".", "]", "\n", "\n">>)
       \o end

\* Lines 166-170: the first chunk as it is, the later ones behind "diff --git ".
FileDiffs(chunks) ==
    [i \in DOMAIN chunks |-> IF i = 1 THEN chunks[1] ELSE DiffGit \o chunks[i]]

OverBudgetPerChunk(total_len, chunk_len) == chunk_len + NoticeReserve > MAX_DIFF_CHARS

OverBudgetNoReserve(total_len, chunk_len) == total_len + chunk_len > MAX_DIFF_CHARS

\* The test of line 180.
OverBudget(total_len, chunk_len) == total_len + chunk_len + NoticeReserve > MAX_DIFF_CHARS

TruncStepNoBreak(st, file_diff) ==
    LET chunk_len == Length(file_diff)
    IN IF OverBudget(st.total_len, chunk_len) THEN st
       ELSE [st EXCEPT !.result = @ \o file_diff \o Str(<<"\n">>),
                       !.total_len = @ + chunk_len + 1,
                       !.included = @ + 1]

TruncStepNoNewline(st, file_diff) ==
    LET chunk_len == Length(file_diff)
    IN IF st.done THEN st
       ELSE IF OverBudget(st.total_len, chunk_len) THEN [st EXCEPT !.done = TRUE]
       ELSE [st EXCEPT !.result = @ \o file_diff,
                       !.total_len = @ + chunk_len + 1,
                       !.included = @ + 1]

TruncStepNoTotal(st, file_diff) ==
    LET chunk_len == Length(file_diff)
    IN IF st.done THEN st
       ELSE IF OverBudget(st.total_len, chunk_len) THEN [st EXCEPT !.done = TRUE]
       ELSE [st EXCEPT !.result = @ \o file_diff \o Str(<<"\n">>),
                       !.included = @ + 1]

\* One round of the loop of lines 177-187; done records the break.
TruncStep(st, file_diff) ==
    LET chunk_len == Length(file_diff)
    IN IF st.done THEN st
       ELSE IF OverBudget(st.total_len, chunk_len) THEN [st EXCEPT !.done = TRUE]
       ELSE [st EXCEPT !.result = @ \o file_diff \o Str(<<"\n">>),
                       !.total_len = @ + chunk_len + 1,
                       !.included = @ + 1]

RECURSIVE TruncLoop(_, _)
TruncLoop(st, file_diffs) ==
    IF file_diffs = <<>> THEN st
    ELSE TruncLoop(TruncStep(st, Head(file_diffs)), Tail(file_diffs))

\* The string pushed at lines 198-202.
TruncationNotice(included, total) ==
    Str(<<"\n", "[", ".", ".", ".", " ", "d", "i", "f", "f", " ", "t", "r", "u", "n", "c",
          "a", "t", "e", "d", ":", " ", "s", "h", "o", "w", "i", "n", "g", " ">>)
    \o Decimal(included) \o Slash \o Decimal(total)
    \o Str(<<" ", "f", "i", "l", "e", "s", " ", "t", "o", " ", "f", "i", "t", " ", "c", "o",
             "n", "t", "e", "x", "t", " ", "l", "i", "m", "i", "t", " ", ".", ".", ".", "]",
             "\n">>)

\* Lines 172-187 for a diff over the budget: [result, total_len, included, done].
TruncRun(d) ==
    TruncLoop([result |-> <<>>, total_len |-> 0, included |-> 0, done |-> FALSE],
              FileDiffs(split(d, Marker)))

TruncateSegmentsLaterCount(d) ==
    LET chunks == split(d, Marker)
    IN IF FallbackTaken(chunks) THEN FallbackTruncate(d)
       ELSE LET r == TruncRun(d)
            IN IF r.included < Len(chunks)
               THEN r.result \o TruncationNotice(r.included, Len(chunks) - 1)
               ELSE r.result

\* Lines 143-205: the diff is over the budget.
TruncateSegments(d) ==
    LET chunks == split(d, Marker)
    IN IF FallbackTaken(chunks) THEN FallbackTruncate(d)
       ELSE LET r == TruncRun(d)
            IN IF r.included < Len(chunks)
               THEN r.result \o TruncationNotice(r.included, Len(chunks))
               ELSE r.result

truncate_diff_unguarded(d) == TruncateSegments(d)

truncate_diff(d) ==
    IF Length(d) <= MAX_DIFF_CHARS THEN d ELSE TruncateSegments(d)

\* truncate_diff panics: in the fallback, or at chunks.remove(0) of line 166.
TruncatePanics(d) ==
    /\ Length(d) > MAX_DIFF_CHARS
    /\ LET chunks == split(d, Marker)
       IN IF FallbackTaken(chunks) THEN FallbackPanics(d) ELSE IndexPanics(chunks, 1)

\* What truncate_diff prints to stderr, lines 151-156 and 190-197.
TruncateDiagnostics(d, verb) ==
    IF Length(d) <= MAX_DIFF_CHARS \/ ~verb THEN <<>>
    ELSE LET chunks == split(d, Marker)
         IN IF FallbackTaken(chunks)
            THEN <<[msg |-> "Diff truncated (fallback mode)",
                    n |-> Length(d) - MAX_DIFF_CHARS, name |-> <<>>]>>
            ELSE IF TruncRun(d).included < Len(chunks)
            THEN <<[msg |-> "Diff truncated", n |-> TruncRun(d).included, name |-> <<>>]>>
            ELSE <<>>

(***************************************************************************)
(* Status annotator.                                                       *)
(***************************************************************************)
Tab == Str(<<"\t">>)
ExcludedSuffix ==
    Str(<<" ", "[", "e", "x", "c", "l", "u", "d", "e", "d", " ", "f", "r", "o", "m", " ",
          "d", "i", "f", "f", "]">>)

AnnotateLineNoStatus(line) ==
    LET parts == splitn2(line, Tab)
    IN IF Len(parts) = 2
       THEN LET filename == parts[2]
            IN IF should_exclude_from_diff(filename)
               THEN filename \o ExcludedSuffix
               ELSE line
       ELSE line

\* The closure of lines 252-265.
AnnotateLine(line) ==
    LET parts == splitn2(line, Tab)
    IN IF Len(parts) = 2
       THEN LET filename == parts[2]
            IN IF should_exclude_from_diff(filename)
               THEN parts[1] \o Tab \o filename \o ExcludedSuffix
               ELSE line
       ELSE line

\* The closure panics: parts[0] or parts[1] of lines 255-258 does not exist.
AnnotateLinePanics(line) ==
    LET parts == splitn2(line, Tab)
    IN Len(parts) = 2 /\ (IndexPanics(parts, 1) \/ IndexPanics(parts, 2))

AnnotatePanics(raw_output) ==
    \E i \in DOMAIN lines(raw_output) : AnnotateLinePanics(lines(raw_output)[i])

\* Lines 250-266: the annotated lines.
AnnotatedLines(raw_output) ==
    LET ls == lines(raw_output) IN [i \in DOMAIN ls |-> AnnotateLine(ls[i])]

AnnotateStatusMerged(raw_output) == join(AnnotatedLines(raw_output), <<>>)

\* Lines 247-276 of get_staged_files (585-614 of get_pr_changed_files).
AnnotateStatus(raw_output) == join(AnnotatedLines(raw_output), Str(<<"\n">>))

ExcludedCount(raw_output) ==
    LET ls == lines(raw_output)
    IN Cardinality({i \in DOMAIN ls : AnnotateLine(ls[i]) # ls[i]})

(***************************************************************************)
(* What git prints for a change set.                                       *)
(***************************************************************************)
CargoLock == Str(<<"C", "a", "r", "g", "o", ".", "l", "o", "c", "k">>)
CargoBak == Str(<<"C", "a", "r", "g", "o", ".", "b", "a", "k">>)
SrcA == Str(<<"s", "r", "c", "/", "a", ".", "r", "s">>)
SrcB == Str(<<"s", "r", "c", "/", "b", ".", "r", "s">>)
SrcC == Str(<<"s", "r", "c", "/", "c", ".", "r", "s">>)
MapB == Str(<<"x", ".", "m", "a", "p", " ", "b", "/", "y">>)

\* std: `diff --git a/old b/new`; noprefix: `diff --git old new` (diff.noprefix);
\* cc: `diff --cc old`, the header of a combined diff, which is no marker.
HeaderLine(f) ==
    CASE f.hdr = "std" -> HeaderPrefix \o f.old \o BSep \o f.new
      [] f.hdr = "noprefix" -> DiffGit \o f.old \o Str(<<" ">>) \o f.new
      [] OTHER -> Str(<<"d", "i", "f", "f", " ", "-", "-", "c", "c", " ">>) \o f.old

SegText(f) ==
    HeaderLine(f) \o Str(<<"\n">>)
    \o (IF f.body = 0 THEN <<>> ELSE Fill(f.fill, f.body) \o Str(<<"\n">>))

RECURSIVE RenderDiff(_)
RenderDiff(fs) == IF fs = <<>> THEN <<>> ELSE SegText(Head(fs)) \o RenderDiff(Tail(fs))

\* A changed file is `M<TAB>path`, a renamed one `R100<TAB>old<TAB>new`; the
\* line of a cc change stands for a line without a tab.
StatusLine(f) ==
    IF f.hdr = "cc" THEN Str(<<"U", " ">>) \o f.old
    ELSE IF f.old = f.new THEN Str(<<"M">>) \o Tab \o f.old
    ELSE Str(<<"R", "1", "0", "0">>) \o Tab \o f.old \o Tab \o f.new

RECURSIVE RenderStatus(_)
RenderStatus(fs) ==
    IF fs = <<>> THEN <<>>
    ELSE StatusLine(Head(fs)) \o Str(<<"\n">>) \o RenderStatus(Tail(fs))

\* Change sets that exercise the filter: every kind of header, short bodies.
FilterChanges ==
    { [hdr |-> "std", old |-> CargoLock, new |-> CargoLock, body |-> 2, fill |-> "+"],
      [hdr |-> "std", old |-> SrcA, new |-> SrcA, body |-> 2, fill |-> "+"],
      [hdr |-> "noprefix", old |-> SrcB, new |-> SrcB, body |-> 2, fill |-> "+"],
      [hdr |-> "std", old |-> CargoLock, new |-> CargoBak, body |-> 0, fill |-> "+"],
      [hdr |-> "std", old |-> MapB, new |-> MapB, body |-> 2, fill |-> "+"],
      [hdr |-> "cc", old |-> SrcC, new |-> SrcC, body |-> 2, fill |-> "+"] }

\* Change sets that exercise the truncation: bodies around the budget.
BodySizes == {0, MAX_DIFF_CHARS \div 2, MAX_DIFF_CHARS - 60, MAX_DIFF_CHARS + 100000}

TruncChanges ==
    { [hdr |-> h.hdr, old |-> h.p, new |-> h.p, body |-> b, fill |-> h.fill] :
        h \in { [hdr |-> "std", p |-> SrcA, fill |-> "+"],
                [hdr |-> "cc", p |-> SrcC, fill |-> "+"],
                [hdr |-> "std", p |-> CargoLock, fill |-> "+"],
                [hdr |-> "std", p |-> SrcB, fill |-> "U+00E9"] },
        b \in BodySizes }

\* git lists a path once: the changes of a change set have distinct paths.
SeqsUpTo(S, n) ==
    { s \in UNION { [1..k -> S] : k \in 0..n } :
        \A i, j \in DOMAIN s : i # j => s[i].old # s[j].old }

ChangeSets == SeqsUpTo(FilterChanges, MaxSegs) \cup SeqsUpTo(TruncChanges, MaxSegs)

(***************************************************************************)
(* The state machine.                                                      *)
(***************************************************************************)
Init ==
    /\ files \in ChangeSets
    /\ diff = RenderDiff(files)
    /\ status = RenderStatus(files)
    /\ verbose \in BOOLEAN
    /\ prev = <<>>
    /\ cur = diff
    /\ op = "none"
    /\ annotated = <<>>
    /\ annDone = FALSE
    /\ stderr = <<>>
    /\ panicked = FALSE
    /\ path = <<>>
    /\ excluded = FALSE
    /\ matched = {}
    /\ matchDone = FALSE
    /\ IdleCli
    /\ IdleBase

\* A call with its verbose argument: the returned string and what is printed.
FilterCallVerboseKeepsAll(d, verb) ==
    [ret |-> IF verb THEN d ELSE filter_excluded_diffs(d),
     err |-> FilterDiagnostics(d, verb)]

FilterCall(d, verb) ==
    [ret |-> filter_excluded_diffs(d), err |-> FilterDiagnostics(d, verb)]

TruncateCall(d, verb) ==
    [ret |-> truncate_diff(d), err |-> TruncateDiagnostics(d, verb)]

AnnotateCall(raw_output, verb) ==
    [ret |-> AnnotateStatus(raw_output),
     err |-> IF verb
             THEN <<[msg |-> "Staged files", n |-> ExcludedCount(raw_output), name |-> <<>>]>>
             ELSE <<>>]

\* filter_excluded_diffs(&diff, verbose) on the output of git diff.
FilterExcludedDiffs ==
    /\ op = "none"
    /\ ~panicked
    /\ prev' = cur
    /\ panicked' = FilterPanics(cur)
    /\ cur' = IF FilterPanics(cur) THEN cur ELSE FilterCall(cur, verbose).ret
    /\ stderr' = IF FilterPanics(cur) THEN <<>> ELSE FilterCall(cur, verbose).err
    /\ op' = "filter"
    /\ UNCHANGED <<files, diff, status, verbose, annotated, annDone>>
    /\ UNCHANGED <<matchVars, cliVars, baseVars>>

\* truncate_diff(&text, verbose) on the text the pipeline holds; applied a
\* second time to its own result it is the re-truncation.
TruncateDiff ==
    /\ op \in {"none", "filter", "truncate"}
    /\ ~panicked
    /\ prev' = cur
    /\ panicked' = TruncatePanics(cur)
    /\ cur' = IF TruncatePanics(cur) THEN cur ELSE TruncateCall(cur, verbose).ret
    /\ stderr' = IF TruncatePanics(cur) THEN <<>> ELSE TruncateCall(cur, verbose).err
    /\ op' = IF op = "truncate" THEN "retruncate" ELSE "truncate"
    /\ UNCHANGED <<files, diff, status, verbose, annotated, annDone>>
    /\ UNCHANGED <<matchVars, cliVars, baseVars>>

\* The annotation of get_staged_files on the output of git diff --name-status.
GetStagedFiles ==
    /\ ~annDone
    /\ ~panicked
    /\ op \in {"none", "filter"}
    /\ panicked' = AnnotatePanics(status)
    /\ annotated' = IF AnnotatePanics(status) THEN <<>>
                    ELSE AnnotateCall(status, verbose).ret
    /\ annDone' = TRUE
    /\ stderr' = IF AnnotatePanics(status) THEN <<>> ELSE AnnotateCall(status, verbose).err
    /\ UNCHANGED <<files, diff, status, verbose, prev, cur, op>>
    /\ UNCHANGED <<matchVars, cliVars, baseVars>>

\* Lines 228-230 of get_git_diff (545-547 of get_branch_diff): the diff for
\* the LLM, from the stdout of git diff.
GetGitDiffPanics(d) ==
    FilterPanics(d) \/ TruncatePanics(filter_excluded_diffs(d))

GetGitDiffTruncateFirst(d) == filter_excluded_diffs(truncate_diff(d))

GetGitDiffResult(d) ==
    LET filtered_diff == filter_excluded_diffs(d)
    IN truncate_diff(filtered_diff)

GetGitDiff ==
    /\ op = "none"
    /\ ~panicked
    /\ prev' = cur
    /\ panicked' = GetGitDiffPanics(cur)
    /\ cur' = IF GetGitDiffPanics(cur) THEN cur ELSE GetGitDiffResult(cur)
    /\ stderr' = IF GetGitDiffPanics(cur) THEN <<>>
                 ELSE FilterDiagnostics(cur, verbose)
                      \o TruncateDiagnostics(filter_excluded_diffs(cur), verbose)
    /\ op' = "get_git_diff"
    /\ UNCHANGED <<files, diff, status, verbose, annotated, annDone>>
    /\ UNCHANGED <<matchVars, cliVars, baseVars>>

Next == FilterExcludedDiffs \/ TruncateDiff \/ GetStagedFiles \/ GetGitDiff

Spec == Init /\ [][Next]_vars

(***************************************************************************)
(* The pattern matcher on its own: should_exclude_from_diff on file names. *)
(***************************************************************************)
\* The names of the rules (a directory rule without its slash) and three
\* names no rule has.
Names ==
    { trim_end_matches(EXCLUDED_FROM_DIFF[k], Slash[1]) : k \in DOMAIN EXCLUDED_FROM_DIFF }
    \cup { Str(<<"c", "a", "r", "g", "o", ".", "l", "o", "c", "k">>),
           Str(<<"l", "i", "b", ".", "r", "s">>),
           Str(<<".", "M", "A", "P">>) }

\* What stands before a name: nothing, a directory, other characters.
Prefixes ==
    { <<>>, Str(<<"s", "r", "c", "/">>), Str(<<"m", "y">>),
      Str(<<"s", "r", "c", "/", "m", "y">>) }

\* What stands after a name: nothing, or a file below it.
Suffixes == { <<>>, Slash, Str(<<"/", "x", ".", "j", "s">>) }

Paths == { pre \o name \o post : pre \in Prefixes, name \in Names, post \in Suffixes }

InitMatch ==
    /\ files = <<>>
    /\ diff = <<>>
    /\ status = <<>>
    /\ verbose = FALSE
    /\ prev = <<>>
    /\ cur = <<>>
    /\ op = "none"
    /\ annotated = <<>>
    /\ annDone = FALSE
    /\ stderr = <<>>
    /\ panicked = FALSE
    /\ path \in Paths
    /\ excluded = FALSE
    /\ matched = {}
    /\ matchDone = FALSE
    /\ IdleCli
    /\ IdleBase

\* should_exclude_from_diff(path); matched records which rules' tests of the
\* closure hold for path.
ShouldExcludeFromDiff ==
    /\ ~matchDone
    /\ excluded' = should_exclude_from_diff(path)
    /\ matched' = { k \in DOMAIN EXCLUDED_FROM_DIFF : PatternMatches(path, EXCLUDED_FROM_DIFF[k]) }
    /\ matchDone' = TRUE
    /\ UNCHANGED <<path, pipeVars, cliVars, baseVars>>

NextMatch == ShouldExcludeFromDiff

SpecMatch == InitMatch /\ [][NextMatch]_vars

(***************************************************************************)
(* The commit command: main of src/src/main.rs from line 1676 on.  The     *)
(* calls of git, gh and the LLM are the events of trace; what they answer  *)
(* is chosen freely.                                                       *)
(***************************************************************************)
taskVars == <<diffTask, filesTask>>

loopVars == <<branch_already_handled, show_branch_option, branch_created, current_message,
              prompt_message, prompt_arg, answer>>

otherVars == <<cmd, cli, pipeVars, matchVars, baseVars>>

\* How often event e occurs in the sequence t.
Count(t, e) == Cardinality({ i \in DOMAIN t : t[i] = e })

\* The run ends: return Ok(()), return Err(..) or std::process::exit.
Finish(o) == outcome' = o /\ pc' = "done"

IdlePipeline ==
    /\ files = <<>>
    /\ diff = <<>>
    /\ status = <<>>
    /\ verbose = FALSE
    /\ prev = <<>>
    /\ cur = <<>>
    /\ op = "none"
    /\ annotated = <<>>
    /\ annDone = FALSE
    /\ stderr = <<>>
    /\ panicked = FALSE

IdleMatch ==
    /\ path = <<>>
    /\ excluded = FALSE
    /\ matched = {}
    /\ matchDone = FALSE

\* The flags of Cli (cli.rs:10-36) and the settings auto_commit and
\* commit_after_branch of the configuration (cli.rs:81-90).
CommitFlags ==
    [yes : BOOLEAN, dry_run : BOOLEAN, branch : BOOLEAN, auto_branch : BOOLEAN,
     auto_commit : BOOLEAN, commit_after_branch : BOOLEAN]

\* Lines 1676-1689: the API key and --all.
MainStart ==
    /\ cmd = "commit" /\ pc = "start"
    /\ \E r \in {"no_key", "stage_err", "staged", "not_all"} :
           CASE r = "no_key" -> Finish("exit") /\ UNCHANGED trace
             [] r = "stage_err" -> Finish("err:stage") /\ trace' = Append(trace, "git_add")
             [] r = "staged" -> /\ pc' = "join"
                                /\ trace' = Append(trace, "git_add")
                                /\ UNCHANGED outcome
             [] OTHER -> pc' = "join" /\ UNCHANGED <<trace, outcome>>
    /\ UNCHANGED <<taskVars, loopVars, otherVars>>

\* tokio::join!(get_git_diff(..), get_staged_files(..)) of lines 1695-1696,
\* and of pr.rs:285-288: both retrievals are started.
SpawnRetrievals ==
    /\ pc = "join"
    /\ diffTask' = "running"
    /\ filesTask' = "running"
    /\ pc' = "joining"
    /\ UNCHANGED <<trace, outcome, loopVars, otherVars>>

\* get_git_diff / get_branch_diff completes: a diff, an empty diff or Err.
DiffCompletes ==
    /\ pc = "joining" /\ diffTask = "running"
    /\ \E r \in {"ok", "empty", "err"} : diffTask' = r
    /\ trace' = Append(trace, "diff_done")
    /\ UNCHANGED <<pc, filesTask, outcome, loopVars, otherVars>>

\* get_staged_files / get_pr_changed_files completes.
FilesCompletes ==
    /\ pc = "joining" /\ filesTask = "running"
    /\ \E r \in {"ok", "err"} : filesTask' = r
    /\ trace' = Append(trace, "files_done")
    /\ UNCHANGED <<pc, diffTask, outcome, loopVars, otherVars>>

JoinRetrievalsDiffOnly ==
    /\ pc = "joining"
    /\ diffTask \notin {"idle", "running"}
    /\ IF diffTask = "err" THEN Finish("err:diff")
       ELSE IF filesTask = "err" THEN Finish("err:files")
       ELSE IF diffTask = "empty" THEN Finish("exit")
       ELSE pc' = "llm" /\ UNCHANGED outcome
    /\ UNCHANGED <<trace, taskVars, loopVars, otherVars>>

\* The join returns when both futures are complete; lines 1698-1718
\* (pr.rs:290-296): diff_result?, files_result?, the empty diff.
JoinRetrievals ==
    /\ pc = "joining"
    /\ diffTask \notin {"idle", "running"}
    /\ filesTask \notin {"idle", "running"}
    /\ IF diffTask = "err" THEN Finish("err:diff")
       ELSE IF filesTask = "err" THEN Finish("err:files")
       ELSE IF diffTask = "empty" THEN Finish("exit")
       ELSE pc' = "llm" /\ UNCHANGED outcome
    /\ UNCHANGED <<trace, taskVars, loopVars, otherVars>>

\* Lines 1724-1748: the request to the LLM for the commit message.
StreamCommitMessage ==
    /\ cmd = "commit" /\ pc = "llm"
    /\ \E r \in {"client_err", "err", "empty", "ok"} :
           CASE r = "client_err" -> Finish("err:client") /\ UNCHANGED trace
             [] r = "err" -> Finish("err:llm") /\ trace' = Append(trace, "llm")
             [] r = "empty" -> Finish("exit") /\ trace' = Append(trace, "llm")
             [] OTHER -> /\ pc' = "branch_flags"
                         /\ trace' = Append(trace, "llm")
                         /\ UNCHANGED outcome
    /\ UNCHANGED <<taskVars, loopVars, otherVars>>

\* Lines 1753-1781: with --branch or --auto-branch the branch is analysed.
AnalyzeBranch ==
    /\ cmd = "commit" /\ pc = "branch_flags"
    /\ IF cli.branch \/ cli.auto_branch
       THEN \E r \in {"branch_err", "analysis_err", "matches", "mismatch"} :
                CASE r = "branch_err" -> Finish("err:branch") /\ UNCHANGED trace
                  [] r = "analysis_err" ->
                         Finish("err:llm") /\ trace' = Append(trace, "llm_analysis")
                  [] r = "matches" -> /\ pc' = "dry_run_check"
                                      /\ trace' = Append(trace, "llm_analysis")
                                      /\ UNCHANGED outcome
                  [] OTHER -> /\ pc' = "mismatch"
                              /\ trace' = Append(trace, "llm_analysis")
                              /\ UNCHANGED outcome
       ELSE pc' = "dry_run_check" /\ UNCHANGED <<trace, outcome>>
    /\ UNCHANGED <<taskVars, loopVars, otherVars>>

\* Lines 1783-1808: the branch does not match the change.
HandleMismatch ==
    /\ cmd = "commit" /\ pc = "mismatch"
    /\ \E a \in {"y", "n"}, created \in BOOLEAN :
           IF cli.auto_branch \/ cli.yes \/ a = "y"
           THEN /\ trace' = Append(trace, "create_branch")
                /\ IF created
                   THEN /\ branch_already_handled' = TRUE
                        /\ pc' = "dry_run_check"
                        /\ UNCHANGED outcome
                   ELSE Finish("err:create_branch") /\ UNCHANGED branch_already_handled
           ELSE /\ branch_already_handled' = TRUE
                /\ pc' = "dry_run_check"
                /\ UNCHANGED <<trace, outcome>>
    /\ UNCHANGED <<taskVars, show_branch_option, branch_created, current_message,
                   prompt_message, prompt_arg, answer, otherVars>>

DryRunCheckAfterYes ==
    /\ cmd = "commit" /\ pc = "dry_run_check"
    /\ IF cli.yes \/ cli.auto_commit
       THEN /\ pc' = "auto_commit"
            /\ UNCHANGED <<outcome, show_branch_option, current_message>>
       ELSE IF cli.dry_run
       THEN Finish("ok") /\ UNCHANGED <<show_branch_option, current_message>>
       ELSE /\ show_branch_option' = ~branch_already_handled
            /\ current_message' = 0
            /\ pc' = "loop"
            /\ UNCHANGED outcome
    /\ UNCHANGED <<trace, taskVars, branch_already_handled, branch_created, prompt_message,
                   prompt_arg, answer, otherVars>>

\* Lines 1811-1820: --dry-run returns; --yes or auto_commit commits at once;
\* otherwise the loop is set up.
DryRunCheck ==
    /\ cmd = "commit" /\ pc = "dry_run_check"
    /\ IF cli.dry_run
       THEN Finish("ok") /\ UNCHANGED <<show_branch_option, current_message>>
       ELSE IF cli.yes \/ cli.auto_commit
       THEN /\ pc' = "auto_commit"
            /\ UNCHANGED <<outcome, show_branch_option, current_message>>
       ELSE /\ show_branch_option' = ~branch_already_handled
            /\ current_message' = 0
            /\ pc' = "loop"
            /\ UNCHANGED outcome
    /\ UNCHANGED <<trace, taskVars, branch_already_handled, branch_created, prompt_message,
                   prompt_arg, answer, otherVars>>

\* Lines 1816-1817: run_git_commit(&message).await?
AutoCommit ==
    /\ cmd = "commit" /\ pc = "auto_commit"
    /\ trace' = Append(trace, "git_commit")
    /\ \E ok \in BOOLEAN : Finish(IF ok THEN "ok" ELSE "err:commit")
    /\ UNCHANGED <<taskVars, loopVars, otherVars>>

\* Line 1823: prompt_commit(&current_message, show_branch_option) is called;
\* ui.rs:128.
EnterPrompt ==
    /\ cmd = "commit" /\ pc = "loop"
    /\ prompt_arg' = current_message
    /\ prompt_message' = current_message
    /\ pc' = "prompt"
    /\ UNCHANGED <<trace, outcome, taskVars, branch_already_handled, show_branch_option,
                   branch_created, current_message, answer, otherVars>>

\* ui.rs:150: "y" returns Commit(current_message).
PromptYes ==
    /\ cmd = "commit" /\ pc = "prompt"
    /\ answer' = "y"
    /\ pc' = "commit"
    /\ UNCHANGED <<trace, outcome, taskVars, branch_already_handled, show_branch_option,
                   branch_created, current_message, prompt_message, prompt_arg, otherVars>>

\* ui.rs:151: "n" returns Cancel; lines 1829-1832 of main end the loop.
PromptNo ==
    /\ cmd = "commit" /\ pc = "prompt"
    /\ answer' = "n"
    /\ trace' = Append(trace, "cancel")
    /\ Finish("ok")
    /\ UNCHANGED <<taskVars, branch_already_handled, show_branch_option, branch_created,
                   current_message, prompt_message, prompt_arg, otherVars>>

\* ui.rs:152-161: "e" opens the editor; the message is replaced by the edited
\* one, or kept when the editor gives nothing.
PromptEdit ==
    /\ cmd = "commit" /\ pc = "prompt"
    /\ answer' = "e"
    /\ \E edited \in BOOLEAN :
           prompt_message' = IF edited /\ prompt_message < MaxEdits
                             THEN prompt_message + 1 ELSE prompt_message
    /\ UNCHANGED <<pc, trace, outcome, taskVars, branch_already_handled, show_branch_option,
                   branch_created, current_message, prompt_arg, otherVars>>

\* ui.rs:162-164 and line 1834 of main: "b" while the option is shown
\* returns CreateBranch(current_message).
PromptBranch ==
    /\ cmd = "commit" /\ pc = "prompt"
    /\ show_branch_option
    /\ Count(trace, "llm_branch_name") < MaxRounds
    /\ answer' = "b"
    /\ current_message' = prompt_message
    /\ pc' = "create_branch"
    /\ UNCHANGED <<trace, outcome, taskVars, branch_already_handled, show_branch_option,
                   branch_created, prompt_message, prompt_arg, otherVars>>

\* ui.rs:165: any other line, and "b" while the option is not shown, prints
\* the hint and asks again.
PromptInvalid ==
    /\ cmd = "commit" /\ pc = "prompt"
    /\ \E a \in {"x", "b"} : (a = "b" => ~show_branch_option) /\ answer' = "invalid:" \o a
    /\ UNCHANGED <<pc, trace, outcome, taskVars, branch_already_handled, show_branch_option,
                   branch_created, current_message, prompt_message, prompt_arg, otherVars>>

\* Lines 1824-1828: run_git_commit(&final_message).await?, break.
CommitChosen ==
    /\ cmd = "commit" /\ pc = "commit"
    /\ trace' = Append(trace, "git_commit")
    /\ \E ok \in BOOLEAN : Finish(IF ok THEN "ok" ELSE "err:commit")
    /\ UNCHANGED <<taskVars, loopVars, otherVars>>

\* Lines 1833-1874: the branch name is generated (a failure falls back to a
\* local name), the user creates the branch or skips.
CreateBranchRound ==
    /\ cmd = "commit" /\ pc = "create_branch"
    /\ \E a \in {"y", "n"}, created \in BOOLEAN :
           IF a = "y"
           THEN /\ trace' = trace \o <<"llm_branch_name", "create_branch">>
                /\ IF created
                   THEN /\ branch_created' = TRUE
                        /\ pc' = "after_branch"
                        /\ UNCHANGED outcome
                   ELSE Finish("err:create_branch") /\ UNCHANGED branch_created
           ELSE /\ trace' = Append(trace, "llm_branch_name")
                /\ branch_created' = FALSE
                /\ pc' = "after_branch"
                /\ UNCHANGED outcome
    /\ UNCHANGED <<taskVars, branch_already_handled, show_branch_option, current_message,
                   prompt_message, prompt_arg, answer, otherVars>>

AfterBranchKeepsOption ==
    /\ cmd = "commit" /\ pc = "after_branch"
    /\ IF cli.commit_after_branch /\ branch_created
       THEN /\ trace' = Append(trace, "git_commit")
            /\ \E ok \in BOOLEAN : Finish(IF ok THEN "ok" ELSE "err:commit")
       ELSE /\ pc' = "loop"
            /\ UNCHANGED <<trace, outcome>>
    /\ UNCHANGED <<taskVars, loopVars, otherVars>>

AfterBranchCommitsAlways ==
    /\ cmd = "commit" /\ pc = "after_branch"
    /\ IF cli.commit_after_branch
       THEN /\ trace' = Append(trace, "git_commit")
            /\ \E ok \in BOOLEAN : Finish(IF ok THEN "ok" ELSE "err:commit")
            /\ UNCHANGED show_branch_option
       ELSE /\ show_branch_option' = FALSE
            /\ pc' = "loop"
            /\ UNCHANGED <<trace, outcome>>
    /\ UNCHANGED <<taskVars, branch_already_handled, branch_created, current_message,
                   prompt_message, prompt_arg, answer, otherVars>>

\* Lines 1876-1888: the commit after the branch was created, or the next
\* round of the loop without the branch option.
AfterBranch ==
    /\ cmd = "commit" /\ pc = "after_branch"
    /\ IF cli.commit_after_branch /\ branch_created
       THEN /\ trace' = Append(trace, "git_commit")
            /\ \E ok \in BOOLEAN : Finish(IF ok THEN "ok" ELSE "err:commit")
            /\ UNCHANGED show_branch_option
       ELSE /\ show_branch_option' = FALSE
            /\ pc' = "loop"
            /\ UNCHANGED <<trace, outcome>>
    /\ UNCHANGED <<taskVars, branch_already_handled, branch_created, current_message,
                   prompt_message, prompt_arg, answer, otherVars>>

(***************************************************************************)
(* The pr command: handle_pr_command of src/src/pr.rs.                     *)
(***************************************************************************)
\* The flags of PrArgs that steer the command (cli.rs:50-74).
PrFlags == [yes : BOOLEAN, dry_run : BOOLEAN, base : BOOLEAN]

\* Lines 170-196: gh, the API key, the current branch, the protected branch.
PrPreflight ==
    /\ cmd = "pr" /\ pc = "start"
    /\ \E r \in {"gh_missing", "no_key", "branch_err", "upstream_err", "protected", "ok"} :
           CASE r \in {"no_key", "protected"} -> Finish("exit")
             [] r = "ok" -> pc' = "base" /\ UNCHANGED outcome
             [] OTHER -> Finish("err:" \o r)
    /\ UNCHANGED <<trace, taskVars, loopVars, otherVars>>

\* Lines 199-202: --base, or get_default_base_branch(verbose).await?
PrBaseBranch ==
    /\ cmd = "pr" /\ pc = "base"
    /\ \E detected \in BOOLEAN :
           IF cli.base \/ detected THEN pc' = "uncommitted" /\ UNCHANGED outcome
           ELSE Finish("err:base")
    /\ UNCHANGED <<trace, taskVars, loopVars, otherVars>>

\* Lines 210-212 and 261-269: the uncommitted changes and what the user
\* wants done with them.
PrUncommitted ==
    /\ cmd = "pr" /\ pc = "uncommitted"
    /\ \E r \in {"err", "clean", "commit", "skip", "quit"} :
           CASE r = "err" -> Finish("err:uncommitted")
             [] r = "quit" -> Finish("exit")
             [] r = "commit" -> pc' = "pr_commit" /\ UNCHANGED outcome
             [] OTHER -> pc' = "commits" /\ UNCHANGED outcome
    /\ UNCHANGED <<trace, taskVars, loopVars, otherVars>>

\* Lines 215-259: the commit of the uncommitted changes; the two retrievals
\* are awaited one after the other here.
PrCommitFlow ==
    /\ cmd = "pr" /\ pc = "pr_commit"
    /\ \E r \in {"stage_err", "diff_err", "files_err", "no_changes", "llm_err", "empty_msg",
                 "commit_ok", "commit_err", "cancel"} :
           LET staged == <<"git_add">>
               diffed == staged \o <<"staged_diff">>
               listed == diffed \o <<"staged_files">>
               asked == listed \o <<"llm">>
           IN CASE r = "stage_err" -> Finish("err:stage") /\ trace' = trace \o staged
                [] r = "diff_err" -> Finish("err:diff") /\ trace' = trace \o diffed
                [] r = "files_err" -> Finish("err:files") /\ trace' = trace \o listed
                [] r = "no_changes" ->
                       pc' = "commits" /\ trace' = trace \o listed /\ UNCHANGED outcome
                [] r = "llm_err" -> Finish("err:llm") /\ trace' = trace \o asked
                [] r = "empty_msg" ->
                       pc' = "commits" /\ trace' = trace \o asked /\ UNCHANGED outcome
                [] r = "commit_ok" ->
                       /\ pc' = "commits"
                       /\ trace' = trace \o asked \o <<"git_commit">>
                       /\ UNCHANGED outcome
                [] r = "commit_err" ->
                       Finish("err:commit") /\ trace' = trace \o asked \o <<"git_commit">>
                [] OTHER -> pc' = "commits" /\ trace' = trace \o asked /\ UNCHANGED outcome
    /\ UNCHANGED <<taskVars, loopVars, otherVars>>

\* Lines 273-278: the commits of the branch.
PrBranchCommits ==
    /\ cmd = "pr" /\ pc = "commits"
    /\ \E r \in {"err", "none", "some"} :
           CASE r = "err" -> Finish("err:commits")
             [] r = "none" -> Finish("exit")
             [] OTHER -> pc' = "join" /\ UNCHANGED outcome
    /\ UNCHANGED <<trace, taskVars, loopVars, otherVars>>

\* Lines 299-321: the request to the LLM for the title and the body.
StreamPrContent ==
    /\ cmd = "pr" /\ pc = "llm"
    /\ \E r \in {"client_err", "err", "ok"} :
           CASE r = "client_err" -> Finish("err:client") /\ UNCHANGED trace
             [] r = "err" -> Finish("err:llm") /\ trace' = Append(trace, "llm_pr")
             [] OTHER -> /\ pc' = "pr_dry_run_check"
                         /\ trace' = Append(trace, "llm_pr")
                         /\ UNCHANGED outcome
    /\ UNCHANGED <<taskVars, loopVars, otherVars>>

\* Lines 323-329 and 336-347: --dry-run returns, --yes goes on, otherwise
\* prompt_pr asks (ui.rs:181-228).
PrDryRunCheck ==
    /\ cmd = "pr" /\ pc = "pr_dry_run_check"
    /\ IF cli.dry_run THEN Finish("ok") /\ UNCHANGED <<trace, answer>>
       ELSE IF cli.yes THEN pc' = "push" /\ UNCHANGED <<trace, outcome, answer>>
       ELSE \E a \in {"y", "n"} :
                /\ answer' = a
                /\ IF a = "y" THEN pc' = "push" /\ UNCHANGED <<trace, outcome>>
                   ELSE Finish("ok") /\ trace' = Append(trace, "cancel")
    /\ UNCHANGED <<taskVars, branch_already_handled, show_branch_option, branch_created,
                   current_message, prompt_message, prompt_arg, otherVars>>

PushBranchIgnoresError ==
    /\ cmd = "pr" /\ pc = "push"
    /\ \E r \in {"up_to_date", "pushed", "err"} :
           /\ trace' = Append(trace, IF r = "err" THEN "push_err" ELSE "push_ok")
           /\ pc' = "create_pr"
           /\ UNCHANGED outcome
    /\ UNCHANGED <<taskVars, loopVars, otherVars>>

\* Lines 331 and 339: push_branch_with_spinner(&current_branch).await?
\* (git.rs:495-527): Ok when nothing is to push or the push succeeded.
PushBranch ==
    /\ cmd = "pr" /\ pc = "push"
    /\ \E r \in {"up_to_date", "pushed", "err"} :
           IF r = "err" THEN Finish("err:push") /\ trace' = Append(trace, "push_err")
           ELSE pc' = "create_pr" /\ trace' = Append(trace, "push_ok") /\ UNCHANGED outcome
    /\ UNCHANGED <<taskVars, loopVars, otherVars>>

\* Lines 333 and 341: create_pr(..).await? (pr.rs:140-163).
CreatePr ==
    /\ cmd = "pr" /\ pc = "create_pr"
    /\ trace' = Append(trace, "create_pr")
    /\ \E ok \in BOOLEAN : Finish(IF ok THEN "ok" ELSE "err:create_pr")
    /\ UNCHANGED <<taskVars, loopVars, otherVars>>

\* A run of the command line: the commit command with its flags and
\* settings, or the pr command with its flags.
InitCli ==
    /\ IdlePipeline
    /\ IdleMatch
    /\ IdleBase
    /\ \/ cmd = "commit" /\ cli \in CommitFlags
       \/ cmd = "pr" /\ cli \in PrFlags
    /\ pc = "start"
    /\ diffTask = "idle"
    /\ filesTask = "idle"
    /\ branch_already_handled = FALSE
    /\ show_branch_option = FALSE
    /\ branch_created = FALSE
    /\ current_message = 0
    /\ prompt_message = 0
    /\ prompt_arg = 0
    /\ answer = ""
    /\ trace = <<>>
    /\ outcome = "running"

NextCli ==
    \/ MainStart \/ SpawnRetrievals \/ DiffCompletes \/ FilesCompletes \/ JoinRetrievals
    \/ StreamCommitMessage \/ AnalyzeBranch \/ HandleMismatch \/ DryRunCheck \/ AutoCommit
    \/ EnterPrompt \/ PromptYes \/ PromptNo \/ PromptEdit \/ PromptBranch \/ PromptInvalid
    \/ CommitChosen \/ CreateBranchRound \/ AfterBranch
    \/ PrPreflight \/ PrBaseBranch \/ PrUncommitted \/ PrCommitFlow \/ PrBranchCommits
    \/ StreamPrContent \/ PrDryRunCheck \/ PushBranch \/ CreatePr

SpecCli == InitCli /\ [][NextCli]_vars

(***************************************************************************)
(* Base-branch detection: get_default_base_branch of src/src/pr.rs.        *)
(***************************************************************************)
\* Branch names the remote may report, and the refs that may have a merge
\* base with HEAD.
BranchNames == {"main", "dev"}

Refs == {"main", "origin/main", "dev", "origin/dev", "master", "origin/master"}

\* pr.rs:120-123
common_branches ==
    <<"origin/main", "origin/master", "origin/mainline", "origin/develop",
      "main", "master", "mainline", "develop">>

\* git.rs:351-358: git merge-base <branch> HEAD succeeds.
branch_has_merge_base(branch) == branch \in baseEnv.merge

\* The names a strategy hands to branch_has_merge_base for a detected branch
\* until one passes: the name itself, then origin/<name>.  The gh strategy
\* does not test an empty name itself (line 68).
Candidates(branch) ==
    IF branch = "" THEN <<"origin/">> ELSE <<branch, "origin/" \o branch>>

\* The position of the first candidate that passes, 0 when none does.
FirstPassing(cands) ==
    IF \E i \in DOMAIN cands : branch_has_merge_base(cands[i])
    THEN CHOOSE i \in DOMAIN cands :
             /\ branch_has_merge_base(cands[i])
             /\ \A j \in 1..(i - 1) : ~branch_has_merge_base(cands[j])
    ELSE 0

TryUnchecked(cands, next) ==
    /\ baseTried' = baseTried
    /\ baseResult' = cands[1]
    /\ basePc' = "done"

\* The candidates are tested in order; the first that passes is returned,
\* otherwise the next strategy follows.
Try(cands, next) ==
    LET k == FirstPassing(cands)
    IN IF k = 0
       THEN /\ baseTried' = baseTried \o cands
            /\ basePc' = next
            /\ baseResult' = IF next = "done" THEN "err" ELSE baseResult
       ELSE /\ baseTried' = baseTried \o SubSeq(cands, 1, k)
            /\ baseResult' = cands[k]
            /\ basePc' = "done"

\* Lines 59-83: gh repo view.
GhStrategy ==
    /\ basePc = "gh"
    /\ IF baseEnv.gh = "none"
       THEN basePc' = "cached" /\ UNCHANGED <<baseTried, baseResult>>
       ELSE Try(Candidates(baseEnv.gh), "cached")
    /\ UNCHANGED <<baseEnv, pipeVars, matchVars, cliVars>>

\* Lines 85-100: the cached origin/HEAD.
CachedHeadStrategy ==
    /\ basePc = "cached"
    /\ IF baseEnv.cached = "none"
       THEN basePc' = "remote" /\ UNCHANGED <<baseTried, baseResult>>
       ELSE Try(Candidates(baseEnv.cached), "remote")
    /\ UNCHANGED <<baseEnv, pipeVars, matchVars, cliVars>>

\* Lines 102-117: git ls-remote.
LsRemoteStrategy ==
    /\ basePc = "remote"
    /\ IF baseEnv.remote = "none"
       THEN basePc' = "common" /\ UNCHANGED <<baseTried, baseResult>>
       ELSE Try(Candidates(baseEnv.remote), "common")
    /\ UNCHANGED <<baseEnv, pipeVars, matchVars, cliVars>>

\* Lines 119-134: the common names, then Err.
CommonNamesStrategy ==
    /\ basePc = "common"
    /\ Try(common_branches, "done")
    /\ UNCHANGED <<baseEnv, pipeVars, matchVars, cliVars>>

InitBase ==
    /\ IdlePipeline
    /\ IdleMatch
    /\ IdleCli
    /\ baseEnv \in [gh : {"none", ""} \cup BranchNames,
                    cached : {"none"} \cup BranchNames,
                    remote : {"none"} \cup BranchNames,
                    merge : SUBSET Refs]
    /\ basePc = "gh"
    /\ baseTried = <<>>
    /\ baseResult = "none"

NextBase == GhStrategy \/ CachedHeadStrategy \/ LsRemoteStrategy \/ CommonNamesStrategy

SpecBase == InitBase /\ [][NextBase]_vars

TypeOK ==
    /\ op \in {"none", "filter", "truncate", "retruncate", "get_git_diff"}
    /\ annDone \in BOOLEAN
    /\ verbose \in BOOLEAN
    /\ panicked \in BOOLEAN
    /\ excluded \in BOOLEAN
    /\ matchDone \in BOOLEAN

(***************************************************************************)
(* Properties.                                                             *)
(***************************************************************************)
NL == Str(<<"\n">>)

\* The segments of d as they stand in d: the text before the first marker,
\* then each marker with the text that follows it.
SegmentsOf(d) ==
    LET ch == split(d, Marker)
    IN [i \in DOMAIN ch |-> IF i = 1 THEN ch[1] ELSE Marker \o ch[i]]

\* The header line of the i-th segment of d.
SegmentHeader(d, i) ==
    LET ch == split(d, Marker)
        seg == IF i = 1 THEN ch[1] ELSE DiffGit \o ch[i]
    IN IF lines(seg) = <<>> THEN <<>> ELSE lines(seg)[1]

\* Every file of the change set is rendered as `diff --git a/<p> b/<p>`.
WellFormedDiff ==
    \A i \in DOMAIN files : files[i].hdr = "std" /\ files[i].old = files[i].new

\* C1: after filter_excluded_diffs on a diff whose segments all begin with
\* `diff --git a/<p> b/<p>`, the text of no segment whose path p is excluded
\* occurs in the output, the first segment included.
C1_ExcludedSegmentsRemoved ==
    (op = "filter" /\ WellFormedDiff) =>
        \A i \in DOMAIN files :
            should_exclude_from_diff(files[i].old) => ~contains(cur, SegText(files[i]))

\* C2: fail open: every non-empty segment of the input whose header line does
\* not start with `diff --git a/` is still in the output of
\* filter_excluded_diffs.
C2_FailOpen ==
    op = "filter" =>
        \A i \in DOMAIN SegmentsOf(prev) :
            (SegmentsOf(prev)[i] # <<>> /\ ~starts_with(SegmentHeader(prev, i), HeaderPrefix))
                => contains(cur, SegmentsOf(prev)[i])

\* No segment of d has a header line from which a path is extracted that
\* satisfies should_exclude_from_diff.
NothingExcluded(d) ==
    \A i \in DOMAIN SegmentsOf(d) :
        LET name == extract_filename_from_diff_header(SegmentHeader(d, i))
        IN name.some => ~should_exclude_from_diff(name.v)

\* C3: when no segment's path is excluded, filter_excluded_diffs returns its
\* input unchanged.
C3_NoopWhenNothingExcluded ==
    (op = "filter" /\ NothingExcluded(prev)) => cur = prev

\* C4: every file whose segment filter_excluded_diffs removed from the diff
\* has its status line annotated with ` [excluded from diff]`.
C4_ExcludedAlsoFlagged ==
    (op = "filter" /\ annDone) =>
        \A i \in DOMAIN files :
            (files[i].hdr = "std" /\ contains(prev, SegText(files[i]))
                /\ ~contains(cur, SegText(files[i])))
            => \E k \in DOMAIN lines(annotated) :
                   lines(annotated)[k] = StatusLine(files[i]) \o ExcludedSuffix

\* C5: truncate_diff returns a diff of at most MAX_DIFF_CHARS characters
\* unchanged.
C5_IdentityWithinBudget ==
    (op \in {"truncate", "retruncate"} /\ Length(prev) <= MAX_DIFF_CHARS) => cur = prev

W5_WithinBudgetTruncated ==
    /\ op = "truncate"
    /\ Length(prev) <= MAX_DIFF_CHARS
    /\ contains(prev, Marker)
    /\ cur = prev

\* C6: a diff over the budget without any marker comes out as its first
\* MAX_DIFF_CHARS/2 characters, `[... N characters truncated ...]` with
\* N = length - MAX_DIFF_CHARS, and its last MAX_DIFF_CHARS/2 characters.
C6_FallbackMiddleCut ==
    (op = "truncate" /\ Length(prev) > MAX_DIFF_CHARS /\ ~contains(prev, DiffGit)) =>
        cur = TakeChars(prev, MAX_DIFF_CHARS \div 2)
              \o Str(<<"\n", "\n", "[", ".", ".", ".", " ">>)
              \o Decimal(Length(prev) - MAX_DIFF_CHARS)
              \o Str(<<" ", "c", "h", "a", "r", "a", "c", "t", "e", "r", "s", " ", "t", "r",
                       "u", "n", "c", "a", "t", "e", "d", " ", ".", ".", ".", "]", "\n", "\n">>)
              \o DropChars(prev, Length(prev) - MAX_DIFF_CHARS \div 2)

NoticeHead ==
    Str(<<"\n", "[", ".", ".", ".", " ", "d", "i", "f", "f", " ", "t", "r", "u", "n", "c",
          "a", "t", "e", "d", ":", " ", "s", "h", "o", "w", "i", "n", "g", " ">>)

NoticeTail ==
    Str(<<" ", "f", "i", "l", "e", "s", " ", "t", "o", " ", "f", "i", "t", " ", "c", "o",
          "n", "t", "e", "x", "t", " ", "l", "i", "m", "i", "t", " ", ".", ".", ".", "]",
          "\n">>)

\* `[... diff truncated: showing k/m files to fit context limit ...]` on a
\* line of its own.
ExpectedNotice(k, m) == NoticeHead \o Decimal(k) \o Str(<<"/">>) \o Decimal(m) \o NoticeTail

\* The segment list truncate_diff scans: the segments of d without the newline
\* that separates them.
ScanList(d) ==
    LET ch == split(d, Marker)
    IN [i \in DOMAIN ch |-> IF i = 1 THEN ch[1] ELSE DiffGit \o ch[i]]

\* The first k entries of segs, each followed by a newline.
RECURSIVE Emitted(_, _)
Emitted(segs, k) ==
    IF k = 0 THEN <<>> ELSE Emitted(segs, k - 1) \o segs[k] \o NL

\* Segment i is admitted: the characters emitted before it, its own length
\* and the reserve of 200 fit the budget.
Admitted(segs, i) ==
    Length(Emitted(segs, i - 1)) + Length(segs[i]) + 200 <= MAX_DIFF_CHARS

\* The length of the longest prefix of segs whose members are all admitted.
GreedyCount(segs) ==
    CHOOSE k \in 0..Len(segs) :
        /\ \A i \in 1..k : Admitted(segs, i)
        /\ k = Len(segs) \/ ~Admitted(segs, k + 1)

\* C7: for a diff over the budget, truncate_diff emits the longest prefix of
\* the segment list whose members are all admitted, whole, and after it
\* nothing but the one-line notice.
C7_GreedyWholeSegments ==
    (op = "truncate" /\ Length(prev) > MAX_DIFF_CHARS) =>
        LET kept == Emitted(ScanList(prev), GreedyCount(ScanList(prev)))
            rest == SubSeq(cur, Len(kept) + 1, Len(cur))
        IN /\ starts_with(cur, kept)
           /\ starts_with(rest, NoticeHead)
           /\ Find(Tail(rest), NL) = Len(rest) - 1

W7_SomeKeptSomeDropped ==
    /\ op = "truncate"
    /\ Length(prev) > MAX_DIFF_CHARS
    /\ GreedyCount(ScanList(prev)) >= 1
    /\ GreedyCount(ScanList(prev)) < Len(ScanList(prev))
    /\ starts_with(cur, ScanList(prev)[1])

\* C8: the result of truncate_diff is longer than MAX_DIFF_CHARS by at most
\* the length of a truncation notice.
C8_LengthBound ==
    op \in {"truncate", "retruncate"} =>
        LET m == Len(ScanList(prev))
        IN Length(cur) <= MAX_DIFF_CHARS + Length(ExpectedNotice(m, m))

W8_TruncatedNearBudget ==
    /\ op = "truncate"
    /\ Length(prev) > MAX_DIFF_CHARS
    /\ Length(cur) > MAX_DIFF_CHARS \div 2
    /\ ends_with(cur, NoticeTail)

\* C9: truncate_diff applied to its own result returns that result.
C9_Idempotent == op = "retruncate" => cur = prev

W9_RetruncatedAfterDrop ==
    /\ op = "retruncate"
    /\ contains(prev, DiffGit)
    /\ ends_with(prev, NoticeTail)
    /\ cur = prev

\* C10: either truncate_diff dropped nothing and its result is the input
\* without a notice, or it emitted the first k < m of the m segments and its
\* result ends with the notice that shows k/m.
C10_NoticeCounts ==
    op = "truncate" =>
        LET segs == ScanList(prev)
            m == Len(segs)
        IN \/ cur = prev /\ ~ends_with(cur, NoticeTail)
           \/ \E k \in 0..(m - 1) : cur = Emitted(segs, k) \o ExpectedNotice(k, m)

W10_NoticeOneOfTwo ==
    /\ op = "truncate"
    /\ Len(ScanList(prev)) = 2
    /\ cur = ScanList(prev)[1] \o NL \o ExpectedNotice(1, 2)

C12_FilterThenTruncate ==
    op = "get_git_diff" =>
        LET filtered == filter_excluded_diffs(prev)
            segs == ScanList(filtered)
        IN IF Length(filtered) <= MAX_DIFF_CHARS THEN cur = filtered
           ELSE cur = Emitted(segs, GreedyCount(segs))
                      \o ExpectedNotice(GreedyCount(segs), Len(segs))

W12_RawOverFilteredWithin ==
    /\ op = "get_git_diff"
    /\ Length(prev) > MAX_DIFF_CHARS
    /\ Length(filter_excluded_diffs(prev)) <= MAX_DIFF_CHARS
    /\ cur # <<>>
    /\ cur = filter_excluded_diffs(prev)

AfterFirstTab(line) == SubSeq(line, Find(line, Tab) + 1, Len(line))

\* C14: a line without a tab is passed through; a line with a tab gets the
\* suffix exactly when the text after its first tab is excluded.
C14_AnnotatePerLine ==
    annDone =>
        \A i \in DOMAIN lines(status) :
            LET line == lines(status)[i]
            IN lines(annotated)[i] =
                   IF Find(line, Tab) = 0 THEN line
                   ELSE IF should_exclude_from_diff(AfterFirstTab(line))
                   THEN line \o ExcludedSuffix
                   ELSE line

W14_TablessAndAnnotated ==
    /\ annDone
    /\ \E i \in DOMAIN lines(status) :
           Find(lines(status)[i], Tab) = 0 /\ lines(annotated)[i] = lines(status)[i]
    /\ \E i \in DOMAIN lines(status) :
           lines(annotated)[i] = Str(<<"M">>) \o Tab \o CargoLock \o ExcludedSuffix

\* The rules of the table by kind.
DirRules == { k \in DOMAIN EXCLUDED_FROM_DIFF : ends_with(EXCLUDED_FROM_DIFF[k], Slash) }

ExtRules ==
    { k \in DOMAIN EXCLUDED_FROM_DIFF \ DirRules :
        starts_with(EXCLUDED_FROM_DIFF[k], Str(<<".">>)) }

ExactRules == (DOMAIN EXCLUDED_FROM_DIFF \ DirRules) \ ExtRules

\* Some directory component of p (a component before the last) equals d.
HasDirComponent(p, d) ==
    LET comps == split(p, Slash)
    IN \E i \in 1..(Len(comps) - 1) : comps[i] = d

\* p is some text followed by n.
IsRawSuffix(p, n) == \E i \in 0..Len(p) : SubSeq(p, i + 1, Len(p)) = n

MyTargetFile == Str(<<"m", "y", "t", "a", "r", "g", "e", "t", "/", "x", ".", "j", "s">>)

\* C15: a directory rule `d/` matches a path exactly when a directory
\* component of the path equals d.
C15_DirectoryRuleAnchored ==
    matchDone =>
        \A k \in DirRules :
            k \in matched <=>
                HasDirComponent(path, SubSeq(EXCLUDED_FROM_DIFF[k], 1,
                                             Len(EXCLUDED_FROM_DIFF[k]) - 1))

W15_LongerDirectoryNameNotMatched ==
    /\ matchDone
    /\ path = MyTargetFile
    /\ matched = {}
    /\ ~excluded

MyGemfileLock ==
    Str(<<"m", "y", "G", "e", "m", "f", "i", "l", "e", ".", "l", "o", "c", "k">>)

C17_AnyRuleMatches ==
    matchDone =>
        /\ excluded <=> matched # {}
        /\ excluded <=>
               \/ \E k \in DirRules :
                      HasDirComponent(path, SubSeq(EXCLUDED_FROM_DIFF[k], 1,
                                                   Len(EXCLUDED_FROM_DIFF[k]) - 1))
               \/ \E k \in ExtRules \cup ExactRules :
                      IsRawSuffix(path, EXCLUDED_FROM_DIFF[k])

W17_LowerCaseNotExcluded ==
    /\ matchDone
    /\ path = Str(<<"c", "a", "r", "g", "o", ".", "l", "o", "c", "k">>)
    /\ ~excluded

\* C18: the segments of a text, joined, are the text; and what truncate_diff
\* emits before its notice is a prefix of its input that ends where a segment
\* ends.
C18_SegmentationLossless ==
    /\ op # "none" => join(SegmentsOf(prev), <<>>) = prev
    /\ (op = "truncate" /\ Length(prev) > MAX_DIFF_CHARS) =>
           \E k \in 0..Len(ScanList(prev)) :
               LET notice == ExpectedNotice(k, Len(ScanList(prev)))
                   kept == SubSeq(cur, 1, Len(cur) - Len(notice))
               IN /\ ends_with(cur, notice)
                  /\ starts_with(prev, kept)
                  /\ kept = <<>>
                     \/ starts_with(SubSeq(prev, Len(kept) + 1, Len(prev)), DiffGit)

W18_FirstSegmentKept ==
    /\ op = "truncate"
    /\ Length(prev) > MAX_DIFF_CHARS
    /\ Len(SegmentsOf(prev)) = 2
    /\ SegmentsOf(prev)[1] # <<>>
    /\ starts_with(cur, SegmentsOf(prev)[1] \o NL \o NoticeHead)

\* C19: an empty diff comes out of filter_excluded_diffs, truncate_diff and
\* get_git_diff empty, and an empty status listing is annotated to an empty
\* listing.
C19_EmptyInEmptyOut ==
    /\ (op \in {"filter", "truncate", "retruncate", "get_git_diff"} /\ prev = <<>>)
           => cur = <<>>
    /\ (annDone /\ status = <<>>) => annotated = <<>>

W19_EmptyThroughAllStages ==
    /\ files = <<>>
    /\ annDone
    /\ op = "truncate"
    /\ cur = <<>>
    /\ annotated = <<>>

\* C20: no call of the pipeline panics.
C20_NoPanic == ~panicked

W20_OverBudgetCutInsideCharacter ==
    /\ op = "truncate"
    /\ Length(prev) > MAX_DIFF_CHARS
    /\ ~contains(prev, Marker)
    /\ ~is_char_boundary(prev, MAX_DIFF_CHARS \div 2)
    /\ ~panicked

RECURSIVE ConcatOf(_, _, _)
ConcatOf(segs, S, i) ==
    IF i > Len(segs) THEN <<>>
    ELSE (IF i \in S THEN segs[i] ELSE <<>>) \o ConcatOf(segs, S, i + 1)

\* C24: the output of filter_excluded_diffs is the concatenation, in the
\* original order, of some of the input's segments as they stood in the
\* input; nothing is inserted between or around them.
C24_OrderedSubsequence ==
    op = "filter" =>
        \E S \in SUBSET DOMAIN SegmentsOf(prev) : cur = ConcatOf(SegmentsOf(prev), S, 1)

W24_TwoRetainedInOrder ==
    /\ op = "filter"
    /\ Len(SegmentsOf(prev)) = 2
    /\ Len(FilterRun(prev).file_diffs) = 2
    /\ cur = SegmentsOf(prev)[1] \o SegmentsOf(prev)[2]

\* C27: for a diff longer than MAX_DIFF_CHARS truncate_diff includes fewer
\* segments than there are (possibly none), always appends the notice, and
\* returns at most MAX_DIFF_CHARS bytes: the notice is shorter than the
\* reserve and the kept text with its newlines stays below the budget less
\* the reserve.
C27_NeverAllSegments ==
    (op = "truncate" /\ Length(prev) > MAX_DIFF_CHARS) =>
        LET m == Len(split(prev, Marker))
            k == TruncRun(prev).included
            notice == ExpectedNotice(k, m)
        IN /\ k < m
           /\ ends_with(cur, notice)
           /\ Length(notice) < NoticeReserve
           /\ Length(cur) - Length(notice) + NoticeReserve <= MAX_DIFF_CHARS + 1
           /\ Length(cur) <= MAX_DIFF_CHARS

W27_NothingIncluded ==
    /\ op = "truncate"
    /\ Length(prev) > MAX_DIFF_CHARS
    /\ TruncRun(prev).included = 0
    /\ cur = ExpectedNotice(0, Len(split(prev, Marker)))
    /\ Length(cur) < NoticeReserve

DotNext == Str(<<".", "n", "e", "x", "t">>)

\* The table entry `.next/`.
DotNextRule == CHOOSE k \in DOMAIN EXCLUDED_FROM_DIFF : EXCLUDED_FROM_DIFF[k] = DotNext \o Slash

\* C28: the entry `.next/` is classified as a directory rule, not as an
\* extension rule: it matches a path exactly when a directory component is
\* `.next`, so never a path that only ends with the text `.next/` or has a
\* component such as `my.next`.
C28_DotNextIsDirectoryRule ==
    /\ DotNextRule \in DirRules
    /\ matchDone =>
           /\ DotNextRule \in matched <=> HasDirComponent(path, DotNext)
           /\ (path \in {DotNext \o Str(<<"/", "x", ".", "j", "s">>),
                         Str(<<"s", "r", "c", "/">>) \o DotNext \o Str(<<"/", "x", ".", "j", "s">>)})
                  => excluded
           /\ (path \in {Str(<<"m", "y">>) \o DotNext \o Slash,
                         Str(<<"m", "y">>) \o DotNext \o Str(<<"/", "x", ".", "j", "s">>)})
                  => DotNextRule \notin matched /\ ~excluded

W28_EndsWithDotNextSlash ==
    /\ matchDone
    /\ path = Str(<<"m", "y">>) \o DotNext \o Slash
    /\ ends_with(path, EXCLUDED_FROM_DIFF[DotNextRule])
    /\ ~excluded

\* Event e occurs in the trace.
Happened(e) == Count(trace, e) > 0

\* C22: with --dry-run the commit command never runs git commit, whatever
\* the other flags and settings are.
C22_DryRunNeverCommits ==
    (cmd = "commit" /\ cli.dry_run) => ~Happened("git_commit") /\ pc # "auto_commit"

W22_DryRunWithYesEnds ==
    /\ cmd = "commit"
    /\ cli.dry_run /\ cli.yes /\ cli.auto_commit /\ cli.commit_after_branch /\ cli.branch
    /\ Happened("create_branch")
    /\ outcome = "ok"
    /\ ~Happened("git_commit")

\* C23: in the pr command create_pr is called only right after
\* push_branch_with_spinner returned Ok, and only with --yes or after the
\* user chose to create; with --dry-run or after the user cancelled neither
\* the push nor create_pr is called; after a failed push create_pr is not
\* called.
C23_PrAfterConfirmAndPush ==
    cmd = "pr" =>
        /\ \A i \in DOMAIN trace :
               trace[i] = "create_pr" =>
                   /\ i > 1 /\ trace[i - 1] = "push_ok"
                   /\ cli.yes \/ answer = "y"
                   /\ ~cli.dry_run
        /\ \A i \in DOMAIN trace :
               trace[i] \in {"push_ok", "push_err"} => (cli.yes \/ answer = "y") /\ ~cli.dry_run
        /\ (cli.dry_run \/ Happened("cancel")) =>
               ~Happened("push_ok") /\ ~Happened("push_err") /\ ~Happened("create_pr")
        /\ Happened("push_err") => ~Happened("create_pr") /\ outcome = "err:push"

W23_CreatedAfterPromptAndPush ==
    /\ cmd = "pr"
    /\ ~cli.yes
    /\ answer = "y"
    /\ Happened("push_ok")
    /\ Happened("create_pr")
    /\ outcome = "ok"

\* The request to the LLM that is built from the two joined retrievals.
JoinedLlm == IF cmd = "commit" THEN "llm" ELSE "llm_pr"

\* Event a occurs in the trace before position i.
Before(a, i) == \E j \in 1..(i - 1) : trace[j] = a

\* C25: in both commands the request to the LLM is issued only after both
\* retrievals of the join completed, in whatever order they complete; when
\* one of them failed the run ends with that error and nothing follows the
\* retrievals: no request to the LLM, no commit, no push.
C25_JoinBeforeLlm ==
    cmd \in {"commit", "pr"} =>
        /\ \A i \in DOMAIN trace :
               trace[i] = JoinedLlm => Before("diff_done", i) /\ Before("files_done", i)
        /\ (Happened(JoinedLlm) \/ pc = "llm") => diffTask = "ok" /\ filesTask = "ok"
        /\ (diffTask = "err" \/ filesTask = "err") =>
               /\ ~Happened(JoinedLlm)
               /\ trace[Len(trace)] \in {"diff_done", "files_done"}
               /\ pc \in {"joining", "done"}
               /\ pc = "done" =>
                      outcome = IF diffTask = "err" THEN "err:diff" ELSE "err:files"

W25_FilesFirstThenDiffThenLlm ==
    /\ cmd = "pr"
    /\ \E i \in DOMAIN trace :
           /\ trace[i] = "llm_pr"
           /\ \E j \in 1..(i - 1) : trace[j] = "diff_done" /\ Before("files_done", j)

\* C29: in the loop of the commit command the create-branch round happens at
\* most once and a branch is created at most once per run: the round is
\* entered only while show_branch_option is true, the option starts as
\* ~branch_already_handled and is false after the round, and the next prompt
\* is called with the message as the user last edited it.
C29_BranchRoundAtMostOnce ==
    cmd = "commit" =>
        /\ Count(trace, "llm_branch_name") <= 1
        /\ Count(trace, "create_branch") <= 1
        /\ pc \in {"create_branch", "after_branch"} =>
               /\ show_branch_option
               /\ ~branch_already_handled
               /\ current_message = prompt_message
        /\ (pc \in {"loop", "prompt", "commit"} /\ ~Happened("llm_branch_name")) =>
               show_branch_option = ~branch_already_handled
        /\ (pc \in {"loop", "prompt", "commit"} /\ Happened("llm_branch_name")) =>
               ~show_branch_option
        /\ pc \in {"prompt", "commit"} => prompt_arg = current_message

W29_RepromptedWithEditedMessage ==
    /\ cmd = "commit"
    /\ pc = "prompt"
    /\ Count(trace, "llm_branch_name") = 1
    /\ ~show_branch_option
    /\ prompt_arg = 1
    /\ answer = "invalid:b"

\* C30: the commit command runs git commit at most once; not at all when the
\* user cancelled; and the commit that follows a create-branch round without
\* a new answer happens only with commit_after_branch set and the branch
\* created.
C30_CommitAtMostOnce ==
    cmd = "commit" =>
        /\ Count(trace, "git_commit") <= 1
        /\ Happened("cancel") => ~Happened("git_commit")
        /\ Happened("git_commit") => pc = "done"
        /\ (Happened("git_commit") /\ answer = "b") =>
               cli.commit_after_branch /\ branch_created

W30_SkippedBranchNoAutoCommit ==
    /\ cmd = "commit"
    /\ cli.commit_after_branch
    /\ Happened("llm_branch_name")
    /\ ~branch_created
    /\ pc = "prompt"
    /\ ~Happened("git_commit")

\* The names a detected branch contributes to the order of trial.
TrialOf(n) ==
    IF n = "none" THEN <<>>
    ELSE IF n = "" THEN <<"origin/">>
    ELSE <<n, "origin/" \o n>>

\* The order of trial: gh, cached origin/HEAD, ls-remote, the common names.
TrialOrder ==
    TrialOf(baseEnv.gh) \o TrialOf(baseEnv.cached) \o TrialOf(baseEnv.remote)
    \o <<"origin/main", "origin/master", "origin/mainline", "origin/develop",
         "main", "master", "mainline", "develop">>

HasMergeBase(b) == b \in baseEnv.merge

\* The parts of C26 that do not depend on the order inside a strategy: what
\* is returned passed the check, it is the first name that passed, and Err
\* means that every name was tried and none passed.
ReturnsFirstPassing ==
    /\ baseResult \notin {"none", "err"} =>
           /\ HasMergeBase(baseResult)
           /\ baseTried # <<>> /\ baseTried[Len(baseTried)] = baseResult
    /\ \A i \in DOMAIN baseTried :
           HasMergeBase(baseTried[i]) => i = Len(baseTried) /\ baseResult = baseTried[i]
    /\ baseResult = "err" =>
           /\ basePc = "done"
           /\ \A i \in DOMAIN baseTried : ~HasMergeBase(baseTried[i])
           /\ \A i \in DOMAIN common_branches :
                  \E j \in DOMAIN baseTried : baseTried[j] = common_branches[i]

\* C26 as stated: a branch returned by get_default_base_branch passed the
\* merge-base check, the first passing candidate is returned, Err only when
\* none passes, and every candidate, also of the common-name list, is tried
\* bare before it is tried as origin/<name>.
C26_BareBeforeOriginEverywhere ==
    basePc # "idle" =>
        /\ ReturnsFirstPassing
        /\ \A i \in DOMAIN baseTried :
               \A n \in BranchNames \cup {"main", "master", "mainline", "develop"} :
                   baseTried[i] = "origin/" \o n =>
                       \E j \in 1..(i - 1) : baseTried[j] = n

\* C26 amended: as above, but the order of trial is that of the code: a
\* detected name first bare and then as origin/<name> (an empty answer of gh
\* only as `origin/`), and the common names in the order of their list,
\* the four origin/ names before the four bare names.
C26_OnlyUsableBranches ==
    basePc # "idle" =>
        /\ ReturnsFirstPassing
        /\ Len(baseTried) <= Len(TrialOrder)
        /\ baseTried = SubSeq(TrialOrder, 1, Len(baseTried))
        /\ baseResult = "err" => baseTried = TrialOrder

W26_OriginMainBeforeMain ==
    /\ basePc = "done"
    /\ baseResult = "origin/main"
    /\ baseTried = <<"dev", "origin/dev", "origin/main">>
    /\ HasMergeBase("main")

====
